---- MODULE Spec2Model ----
(***************************************************************************)
(* A model of the MCP gateway of cloudflare/src/worker.js: the HTTP entry  *)
(* point (routing, authentication, rate limiting), the JSON-RPC handler    *)
(* (single and batched envelopes) and the eight tool handlers with their   *)
(* session context and their calls to the remote tracker.                  *)
(*                                                                         *)
(* JavaScript strings are sequences of one-character strings, so that      *)
(* startsWith, slice, split, trim, parseInt and String(n) are computed the *)
(* way the runtime computes them.                                          *)
(***************************************************************************)
EXTENDS Integers, Sequences, FiniteSets, TLC

----------------------------------------------------------------------------
(* JavaScript values and string primitives                                 *)

\* null / undefined: a one-element sequence whose element is not a single
\* character, so it equals no string.
Null == << "null" >>
Undefined == << "undefined" >>

\* JavaScript truthiness of a string-or-null value: null, undefined and ""
\* are falsy.
Truthy(v) == v # Null /\ v # Undefined /\ v # << >>

\* a || b
OrElse(a, b) == IF Truthy(a) THEN a ELSE b

\* s.startsWith(p)
StartsWith(s, p) == Len(s) >= Len(p) /\ SubSeq(s, 1, Len(p)) = p

\* s.slice(n)
Slice(s, n) == SubSeq(s, n + 1, Len(s))

Digits == << "0", "1", "2", "3", "4", "5", "6", "7", "8", "9" >>

IsDigit(c) == \E i \in 1..Len(Digits) : Digits[i] = c

DigitVal(c) == (CHOOSE i \in 1..Len(Digits) : Digits[i] = c) - 1

\* String(n) for a natural number n: its decimal digits.
RECURSIVE ToStr(_)
ToStr(n) == IF n < Len(Digits) THEN << Digits[n + 1] >>
            ELSE ToStr(n \div Len(Digits)) \o << Digits[(n % Len(Digits)) + 1] >>

\* The value parseInt gives to a string with no leading digit. Every number
\* the model parses is a natural number, so -1 is free to stand for NaN;
\* comparisons go through JSLess, where NaN compares false.
NaN == 0 - 1

RECURSIVE DigitPrefixVal(_, _)
DigitPrefixVal(s, acc) ==
    IF s = << >> \/ ~IsDigit(Head(s)) THEN acc
    ELSE DigitPrefixVal(Tail(s), acc * Len(Digits) + DigitVal(Head(s)))

RECURSIVE TrimStart(_)
TrimStart(s) == IF s # << >> /\ Head(s) = " " THEN TrimStart(Tail(s)) ELSE s

RECURSIVE TrimEnd(_)
TrimEnd(s) == IF s # << >> /\ s[Len(s)] = " " THEN TrimEnd(SubSeq(s, 1, Len(s) - 1)) ELSE s

\* s.trim()
Trim(s) == TrimEnd(TrimStart(s))

\* parseInt(s, 10) of a string, of undefined (a missing split segment) or of
\* null: leading white space is skipped, then the longest prefix of digits
\* is read.
ParseInt(s) ==
    IF s = Null \/ s = Undefined THEN NaN
    ELSE LET t == TrimStart(s)
         IN IF t = << >> \/ ~IsDigit(Head(t)) THEN NaN ELSE DigitPrefixVal(t, 0)

\* a < b on numbers, false when either is NaN
JSLess(a, b) == a # NaN /\ b # NaN /\ a < b

\* s.split(sep) for a one-character separator
RECURSIVE SplitAcc(_, _, _)
SplitAcc(s, sep, cur) ==
    IF s = << >> THEN << cur >>
    ELSE IF Head(s) = sep THEN << cur >> \o SplitAcc(Tail(s), sep, << >>)
    ELSE SplitAcc(Tail(s), sep, Append(cur, Head(s)))

Split(s, sep) == SplitAcc(s, sep, << >>)

\* a[i] of a JavaScript array, 0-based: undefined past the end
At(a, i) == IF i + 1 \in 1..Len(a) THEN a[i + 1] ELSE Undefined

----------------------------------------------------------------------------
(* Authentication                                                          *)

BearerPrefix == << "B", "e", "a", "r", "e", "r", " " >>

\* _isAuthorized without its test that a secret is configured
_isAuthorizedUnguarded(key, xApiKey, authorization) ==
    LET auth == OrElse(authorization, << >>)
        bearer == IF StartsWith(auth, BearerPrefix) THEN Slice(auth, 7) ELSE Null
    IN xApiKey = key \/ bearer = key

\* _isAuthorized(request, env): key is env.MCP_API_KEY, xApiKey and
\* authorization are what request.headers.get returns.
_isAuthorized(key, xApiKey, authorization) ==
    IF ~Truthy(key) THEN FALSE
    ELSE LET auth == OrElse(authorization, << >>)
             bearer == IF StartsWith(auth, BearerPrefix)
                       THEN Slice(auth, 7) ELSE Null
         IN xApiKey = key \/ bearer = key

----------------------------------------------------------------------------
(* Bounds of the model                                                     *)

\* HTTP requests over a run
MaxRequests == 11
\* clock ticks of half a second over a run
MaxTicks == 2

MaxCalls == 2

MaxBatch == 3

----------------------------------------------------------------------------
(* State                                                                   *)

VARIABLES
    env,              \* the bindings: MCP_API_KEY, RATE_LIMIT_KV, SESSION_KV, ADO_*
    now,              \* Date.now(), in milliseconds
    rateLimitKV,      \* contents of env.RATE_LIMIT_KV: key -> [v, exp]
    sessionKV,        \* contents of env.SESSION_KV: key -> [v, exp]
    rateLimitMemory,  \* globalThis.rateLimitMemory: key -> count
    memorySessions,   \* the module's memorySessions map: key -> story id
    stories,          \* remote tracker: story id -> System.State
    tasks,            \* remote tracker: task id -> [state, parent]
    reqs,             \* the fetch activations: slot -> request and position
    nreq,             \* history: requests received so far
    hist,             \* history of the checks: when the one in progress began,
                      \* and <<identity, time>> -> checks made and allowed;
                      \* under "story", the active story a body's session had
                      \* when its entries were started
    lastSet,          \* history: session id -> the story id saved last
    okSet,            \* history: session ids whose set_story returned a result
    authCase          \* one call of _isAuthorized: its inputs and its result

vars == << env, now, rateLimitKV, sessionKV, rateLimitMemory, memorySessions,
           stories, tasks, reqs, nreq, hist, lastSet, okSet, authCase >>

\* What the worker and the remote tracker hold
storeVars == << rateLimitKV, sessionKV, rateLimitMemory, memorySessions >>
remoteVars == << stories, tasks >>

EmptyMap == [k \in {} |-> 0]

MapPut(m, k, v) == [x \in DOMAIN m \cup {k} |-> IF x = k THEN v ELSE m[x]]

MapGet(m, k, dflt) == IF k \in DOMAIN m THEN m[k] ELSE dflt

Restrict(m, S) == [x \in S |-> m[x]]

\* An entry without expirationTtl never expires.
NoExpiry == 0 - 1

\* The entries of a KV namespace that have not expired.
Live(kv) == {k \in DOMAIN kv : kv[k].exp = NoExpiry \/ now < kv[k].exp}

\* KV.get(key): the stored string, or null
KVGet(kv, k) == IF k \in Live(kv) THEN kv[k].v ELSE Null

\* KV.put(key, value, { expirationTtl: ttl }), ttl in seconds
KVPut(kv, k, v, ttl) ==
    MapPut(kv, k, [v |-> v, exp |-> IF ttl = NoExpiry THEN NoExpiry ELSE now + ttl * 1000])

----------------------------------------------------------------------------
(* Rate limiter: _checkRateLimit                                           *)

RATE_LIMIT == 10

\* const clientIP = CF-Connecting-IP || X-Forwarded-For?.split(",")[0]?.trim() || "unknown"
ClientIP(cfip, xff) ==
    OrElse(cfip,
           OrElse(IF xff = Null THEN Undefined ELSE Trim(At(Split(xff, ","), 0)),
                  << "u", "n", "k", "n", "o", "w", "n" >>))

\* Math.floor(now / 1000)
WindowStart(t) == t \div 1000

\* `ratelimit:${clientIP}:${windowStart}`
RateKey(ip, ws) ==
    << "r", "a", "t", "e", "l", "i", "m", "i", "t", ":" >> \o ip \o << ":" >> \o ToStr(ws)

\* The clean-up loop of the in-memory tier: an entry goes when the number
\* parsed from the third ':'-separated field of its key is below the cutoff.
Evicted(k, ws) == JSLess(ParseInt(At(Split(k, ":"), 2)), ws - 2)

CleanUp(mem, ws) == Restrict(mem, {k \in DOMAIN mem : ~Evicted(k, ws)})

\* count = stored ? parseInt(stored, 10) : 0
StoredCount(stored) == IF Truthy(stored) THEN ParseInt(stored) ELSE 0

\* count > RATE_LIMIT
RateExceededAbove(count) == count # NaN /\ count > RATE_LIMIT

\* count >= RATE_LIMIT
RateExceeded(count) == count # NaN /\ count >= RATE_LIMIT

\* count += 1, and String(count)
Increment(count) == IF count = NaN THEN NaN ELSE count + 1

NumToStr(n) == IF n = NaN THEN << "N", "a", "N" >> ELSE ToStr(n)

\* Which store the limiter uses, fixed by the bindings.
RateTier == IF env.RATE_LIMIT_KV THEN "RATE_LIMIT_KV"
            ELSE IF env.SESSION_KV THEN "SESSION_KV" ELSE "memory"

----------------------------------------------------------------------------
(* HTTP entry point: fetch, to the end of the rate-limit and method gates  *)

\* The fetch activations that can be in flight at once
Slots == {1, 2}

NoBody == [kind |-> "none", msgs |-> << >>]

\* A fetch activation: the request (method, path, headers, body), where it
\* is suspended (pc), the locals of _checkRateLimit, the handleRpc
\* activations of its envelopes with the order they finished in, and the
\* response once it is sent.
IdleReq == [pc |-> "idle", method |-> "", path |-> "", xApiKey |-> Null,
            authorization |-> Null, cfip |-> Null, xff |-> Null,
            mcpSessionId |-> Null, xSessionId |-> Null, body |-> NoBody,
            key |-> << >>, count |-> 0, retryAfter |-> 0,
            sid |-> << >>, acts |-> << >>, order |-> << >>,
            status |-> 0, respBody |-> << >>, respSid |-> Null,
            storeFailed |-> FALSE]

Free(p) == reqs[p].pc \in {"idle", "done"}

\* The slot a new activation takes: the lowest one that is free.
LowestFree(p) == Free(p) /\ \A q \in Slots : Free(q) => p <= q

\* new Response(..., { status }): the response is sent and the activation
\* ends; the locals of the rate limiter are gone.
Respond(r, status) ==
    [r EXCEPT !.pc = "done", !.status = status, !.key = << >>, !.count = 0]

\* fetch with the authentication gate applied to POST requests only
RoutePostOnly(r) ==
    IF r.method = "GET" /\ r.path = "/health" THEN "200"
    ELSE IF r.path # "/mcp" THEN "404"
    ELSE IF r.method = "POST"
            /\ ~_isAuthorized(env.MCP_API_KEY, r.xApiKey, r.authorization) THEN "401"
    ELSE "check"

\* Lines 95-104: the health check, the path check and the authentication
\* gate, in the order fetch tries them. "check" means the request goes on
\* to the rate limiter.
Route(r) ==
    IF r.method = "GET" /\ r.path = "/health" THEN "200"
    ELSE IF r.path # "/mcp" THEN "404"
    ELSE IF ~_isAuthorized(env.MCP_API_KEY, r.xApiKey, r.authorization) THEN "401"
    ELSE "check"

\* fetch with the method gate before the rate-limit gate
CheckedMethodFirst(r, allowed) ==
    IF r.method # "POST" THEN Respond(r, 405)
    ELSE IF ~allowed THEN Respond([r EXCEPT !.retryAfter = 1], 429)
    ELSE [r EXCEPT !.pc = "json", !.key = << >>, !.count = 0]

\* Lines 108-122: fetch once _checkRateLimit has returned: the rate-limit
\* gate, then the method gate, then the wait for the body.
Checked(r, allowed) ==
    IF ~allowed THEN Respond([r EXCEPT !.retryAfter = 1], 429)
    ELSE IF r.method # "POST" THEN Respond(r, 405)
    ELSE [r EXCEPT !.pc = "json", !.key = << >>, !.count = 0]

\* fetch, from the arrival of request r0 to its first suspension: routing,
\* authentication and, for a request that passes, _checkRateLimit. With no
\* KV bound the whole check runs here without suspension (lines 476-509);
\* with a KV bound it suspends on KV.get.
Fetch(p, r0) ==
    /\ Free(p)
    /\ LET r == [IdleReq EXCEPT !.method = r0.method, !.path = r0.path,
                                !.xApiKey = r0.xApiKey, !.authorization = r0.authorization,
                                !.cfip = r0.cfip, !.xff = r0.xff, !.body = r0.body,
                                !.mcpSessionId = r0.mcpSessionId,
                                !.xSessionId = r0.xSessionId]
           ws == WindowStart(now)
           key == RateKey(ClientIP(r.cfip, r.xff), ws)
       IN CASE Route(r) = "200" ->
                 /\ reqs' = [reqs EXCEPT ![p] = Respond(r, 200)]
                 /\ UNCHANGED rateLimitMemory
            [] Route(r) = "404" ->
                 /\ reqs' = [reqs EXCEPT ![p] = Respond(r, 404)]
                 /\ UNCHANGED rateLimitMemory
            [] Route(r) = "401" ->
                 /\ reqs' = [reqs EXCEPT ![p] = Respond(r, 401)]
                 /\ UNCHANGED rateLimitMemory
            [] Route(r) = "check" /\ RateTier = "memory" ->
                 LET mem == CleanUp(rateLimitMemory, ws)
                     count == MapGet(mem, key, 0)
                 IN IF RateExceeded(count)
                    THEN /\ rateLimitMemory' = mem
                         /\ reqs' = [reqs EXCEPT ![p] = Checked(r, FALSE)]
                    ELSE /\ rateLimitMemory' = MapPut(mem, key, Increment(count))
                         /\ reqs' = [reqs EXCEPT ![p] = Checked(r, TRUE)]
            [] Route(r) = "check" /\ RateTier # "memory" ->
                 /\ reqs' = [reqs EXCEPT ![p] = [r EXCEPT !.pc = "rl_get", !.key = key]]
                 /\ UNCHANGED rateLimitMemory
    /\ UNCHANGED << env, now, rateLimitKV, sessionKV, memorySessions, remoteVars,
                    lastSet, okSet >>

\* The KV namespace the limiter reads and writes.
RateStore == IF env.RATE_LIMIT_KV THEN rateLimitKV ELSE sessionKV

\* KV.get answers: lines 470-471 / 474-475, the test of line 492 and, for
\* a request within the limit, the increment and the KV.put it waits on.
RLGet(p) ==
    /\ reqs[p].pc = "rl_get"
    /\ LET r == reqs[p]
           count == StoredCount(KVGet(RateStore, r.key))
       IN reqs' = [reqs EXCEPT ![p] =
              IF RateExceeded(count) THEN Checked(r, FALSE)
              ELSE [r EXCEPT !.pc = "rl_put", !.count = Increment(count)]]
    /\ UNCHANGED << env, now, storeVars, remoteVars, lastSet, okSet >>

\* KV.put answers: lines 501-504, and the result of line 509.
RLPut(p) ==
    /\ reqs[p].pc = "rl_put"
    /\ LET r == reqs[p]
       IN /\ IF env.RATE_LIMIT_KV
             THEN /\ rateLimitKV' = KVPut(rateLimitKV, r.key, NumToStr(r.count), 2)
                  /\ UNCHANGED sessionKV
             ELSE /\ sessionKV' = KVPut(sessionKV, r.key, NumToStr(r.count), 2)
                  /\ UNCHANGED rateLimitKV
          /\ reqs' = [reqs EXCEPT ![p] = Checked(r, TRUE)]
    /\ UNCHANGED << env, now, rateLimitMemory, memorySessions, remoteVars,
                    lastSet, okSet >>

\* The KV.get or the KV.put the limiter waits on rejects (the namespace is
\* unavailable): lines 470, 474, 501 and 503 await it outside any try, and
\* so does line 107, so the rejection leaves fetch and the runtime answers
\* 500 for the worker. Nothing is stored.
RLFails(p) ==
    /\ reqs[p].pc \in {"rl_get", "rl_put"}
    /\ reqs' = [reqs EXCEPT ![p] = Respond([reqs[p] EXCEPT !.storeFailed = TRUE], 500)]
    /\ UNCHANGED << env, now, storeVars, remoteVars, lastSet, okSet >>

\* The clock moves on by half a second.
Tick ==
    /\ now + 500 <= 10000 + 500 * MaxTicks
    /\ now' = now + 500
    /\ UNCHANGED << env, storeVars, remoteVars, reqs, lastSet, okSet >>

(* JSON-RPC envelopes and tool arguments                                   *)

\* Values the code only compares or tests for truthiness (methods, tool
\* names, ids, task fields) are plain strings; this one stands for
\* `undefined`, "" is the empty string.
undefined == "undefined"

TruthyTok(v) == v # undefined /\ v # ""

NoArgs == [story_id |-> Undefined, task_id |-> undefined, status |-> undefined,
           subject |-> undefined, description |-> undefined, owner |-> undefined,
           active_form |-> undefined, depends_on_id |-> undefined]

\* An envelope: falsy is TRUE for a body entry that is null (or another
\* falsy JSON value); method is undefined when it is not a string.
Envelope(jsonrpc, id, method, name, args) ==
    [falsy |-> FALSE, jsonrpc |-> jsonrpc, id |-> id, method |-> method,
     name |-> name, args |-> args]

NullEnvelope == [Envelope(undefined, undefined, undefined, undefined, NoArgs)
                 EXCEPT !.falsy = TRUE]

ToolCall(id, name, args) == Envelope("2.0", id, "tools/call", name, args)

----------------------------------------------------------------------------
(* Responses                                                               *)

NoResponse == [kind |-> "null", id |-> undefined, code |-> 0, isError |-> FALSE,
               text |-> "", state |-> "", story |-> Undefined, names |-> << >>,
               states |-> {}]

\* rpcResult(id, result)
rpcResult(id, text) == [NoResponse EXCEPT !.kind = "result", !.id = id, !.text = text]

\* rpcError(id, code, message)
rpcError(id, code) == [NoResponse EXCEPT !.kind = "error", !.id = id, !.code = code]

\* The catch clause of handleRpc: a result whose content is the error text
ErrorContent(id, text) == [rpcResult(id, text) EXCEPT !.isError = TRUE]

----------------------------------------------------------------------------
(* Tool handlers, up to their first suspension                             *)

STATE_MAP_KEYS == << "pending", "in_progress", "completed", "deleted" >>

STATE_MAP_VALUES == << "To Do", "Active", "Closed", "Removed" >>

\* Property names every object literal inherits from Object.prototype (the
\* ones the model's inputs use).
ObjectPrototypeKeys == {"constructor", "toString"}

\* STATE_MAP[status]: an own property gives the remote state, an inherited
\* one gives a function (a truthy value JSON.stringify leaves out), anything
\* else gives undefined.
StateMapGet(status) ==
    IF \E i \in 1..Len(STATE_MAP_KEYS) : STATE_MAP_KEYS[i] = status
    THEN STATE_MAP_VALUES[CHOOSE i \in 1..Len(STATE_MAP_KEYS) : STATE_MAP_KEYS[i] = status]
    ELSE IF status \in ObjectPrototypeKeys THEN "[Function]"
    ELSE undefined

\* The set with "Active" added
STORY_ACTIVE_STATES_AndActive == {"New", "Approved", "Committed", "Design", "Active"}

STORY_ACTIVE_STATES == {"New", "Approved", "Committed", "Design"}

\* `story:${sessionId}`
StoryKey(sid) == << "s", "t", "o", "r", "y", ":" >> \o sid

\* One activation of handleRpc: the envelope, the session id, the call it
\* is suspended on (pc), the handler's locals, what it has sent to the
\* remote tracker so far, and its response once it is done.
NewAct(msg, sid) ==
    [msg |-> msg, sid |-> sid, pc |-> "start", storyId |-> Undefined,
     fetched |-> undefined, calls |-> 0, writes |-> 0, sent |-> << >>,
     ids |-> {}, failed |-> FALSE, resp |-> NoResponse]

Done(a, resp) == [a EXCEPT !.pc = "done", !.resp = resp]

\* A thrown error answered with a JSON-RPC error object
ThrowAsRpcError(a, text) == Done(a, rpcError(a.msg.id, 0 - 32603))

\* An error thrown inside the try block of handleRpc
Throw(a, text) == Done(a, ErrorContent(a.msg.id, text))

\* A tool result returned through line 165
Return(a, text) == Done(a, rpcResult(a.msg.id, text))

\* adoRequest up to its fetch: _requiredEnv, then the request is sent and
\* the handler waits for the answer named by pc. ops are the fields a
\* PATCH sets (none for a read).
Send(a, pc, ops) ==
    IF ~env.ADO THEN Throw(a, "ConfigError")
    ELSE [a EXCEPT !.pc = pc, !.calls = @ + 1, !.sent = ops,
                   !.writes = @ + (IF \E i \in 1..Len(ops) : ops[i].path = "System.State"
                                   THEN 1 ELSE 0)]

Op(path, value) == [path |-> path, value |-> value]

\* getActiveStoryId once the store has answered sid, and the remote call
\* each story-scoped handler makes next.
WithStory(a, sid) ==
    IF ~Truthy(sid) THEN Throw(a, "NoActiveStory")
    ELSE LET b == [a EXCEPT !.storyId = sid]
         IN CASE a.msg.name = "task_create" -> Send(b, "POST_task", << >>)
              [] a.msg.name = "task_list" -> Send(b, "POST_wiql", << >>)
              [] a.msg.name = "story_resolve" ->
                   Send(b, "PATCH_resolved", << Op("System.State", "Resolved") >>)

\* The patch taskUpdate builds from the arguments that are truthy
\* (lines 294-302); the status op carries STATE_MAP[status].
UpdatePatch(args) ==
    (IF TruthyTok(args.status) THEN << Op("System.State", StateMapGet(args.status)) >> ELSE << >>)
    \o (IF TruthyTok(args.subject) THEN << Op("System.Title", args.subject) >> ELSE << >>)
    \o (IF TruthyTok(args.description) THEN << Op("System.Description", args.description) >> ELSE << >>)
    \o (IF TruthyTok(args.owner) THEN << Op("System.AssignedTo", args.owner) >> ELSE << >>)

\* taskUpdate without the return of line 303
TaskUpdateStartAlwaysSend(a) ==
    LET args == a.msg.args
    IN IF TruthyTok(args.status) /\ ~TruthyTok(StateMapGet(args.status))
       THEN Done(a, [ErrorContent(a.msg.id, "InvalidStatus") EXCEPT !.names = STATE_MAP_KEYS])
       ELSE Send(a, "PATCH_task", UpdatePatch(args))

\* taskUpdate up to its first suspension
TaskUpdateStart(a) ==
    LET args == a.msg.args
    IN IF TruthyTok(args.status) /\ ~TruthyTok(StateMapGet(args.status))
       THEN Done(a, [ErrorContent(a.msg.id, "InvalidStatus") EXCEPT !.names = STATE_MAP_KEYS])
       ELSE IF UpdatePatch(args) = << >> THEN Return(a, "No fields to update")
       ELSE Send(a, "PATCH_task", UpdatePatch(args))

\* dispatchTool, each handler run to its first suspension. mem is
\* memorySessions as the handler finds it.
DispatchStart(a, mem) ==
    LET n == a.msg.name
    IN CASE n = "set_story" -> Send(a, "GET_story", << >>)
         [] n \in {"task_create", "task_list", "story_resolve"} ->
              IF env.SESSION_KV THEN [a EXCEPT !.pc = "kv_get"]
              ELSE WithStory(a, MapGet(mem, StoryKey(a.sid), Undefined))
         [] n = "task_update" -> TaskUpdateStart(a)
         [] n = "task_get" -> Send(a, "GET_task", << >>)
         [] n = "task_link" -> Send(a, "PATCH_link", << >>)
         [] n = "task_list_mine" -> Send(a, "POST_wiql_mine", << >>)
         [] OTHER -> Throw(a, "UnknownTool")

\* handleRpc with only the absence of an id making a notification
HandleStartIdOnly(msg, sid, mem) ==
    LET a == NewAct(msg, sid)
    IN IF msg.falsy \/ msg.jsonrpc # "2.0" \/ msg.method = undefined
       THEN Done(a, rpcError(msg.id, 0 - 32600))
       ELSE IF msg.id = undefined
       THEN Done(a, NoResponse)
       ELSE IF msg.method \in {"initialize", "ping", "tools/list"}
       THEN Return(a, msg.method)
       ELSE IF msg.method = "tools/call" THEN DispatchStart(a, mem)
       ELSE Done(a, rpcError(msg.id, 0 - 32601))

\* handleRpc with only the method notifications/initialized making a
\* notification
HandleStartMethodOnly(msg, sid, mem) ==
    LET a == NewAct(msg, sid)
    IN IF msg.falsy \/ msg.jsonrpc # "2.0" \/ msg.method = undefined
       THEN Done(a, rpcError(msg.id, 0 - 32600))
       ELSE IF msg.method = "notifications/initialized"
       THEN Done(a, NoResponse)
       ELSE IF msg.method \in {"initialize", "ping", "tools/list"}
       THEN Return(a, msg.method)
       ELSE IF msg.method = "tools/call" THEN DispatchStart(a, mem)
       ELSE Done(a, rpcError(msg.id, 0 - 32601))

\* handleRpc(msg, env, sessionId), run to its first suspension
HandleStart(msg, sid, mem) ==
    LET a == NewAct(msg, sid)
    IN IF msg.falsy \/ msg.jsonrpc # "2.0" \/ msg.method = undefined
       THEN Done(a, rpcError(msg.id, 0 - 32600))
       ELSE IF msg.method = "notifications/initialized" \/ msg.id = undefined
       THEN Done(a, NoResponse)
       ELSE IF msg.method \in {"initialize", "ping", "tools/list"}
       THEN Return(a, msg.method)
       ELSE IF msg.method = "tools/call" THEN DispatchStart(a, mem)
       ELSE Done(a, rpcError(msg.id, 0 - 32601))

----------------------------------------------------------------------------
(* Tool handlers, from one suspension to the next                          *)

\* Task ids the remote tracker hands out to created tasks
NewTaskIds == << "t3", "t4" >>

FreeTaskIds == {i \in 1..Len(NewTaskIds) : NewTaskIds[i] \notin DOMAIN tasks}

\* setStory after saveStoryId (lines 243-260)
AfterSave(a) ==
    IF a.fetched \in STORY_ACTIVE_STATES
    THEN Send(a, "PATCH_active", << Op("System.State", "Active") >>)
    ELSE Done(a, [rpcResult(a.msg.id, "story set")
                  EXCEPT !.state = a.fetched, !.story = a.msg.args.story_id])

\* The state a PATCH of ops leaves a task in
Patched(task, ops) ==
    IF \E i \in 1..Len(ops) : ops[i].path = "System.State"
    THEN [task EXCEPT !.state = ops[CHOOSE i \in 1..Len(ops) : ops[i].path = "System.State"].value]
    ELSE task

\* Whether the remote tracker can answer the pending call of a with
\* success: the work item it names exists, an id is left for a new task,
\* every op of a patch carries a value.
CanSucceed(a) ==
    CASE a.pc \in {"GET_story", "PATCH_active"} -> a.msg.args.story_id \in DOMAIN stories
      [] a.pc = "PATCH_resolved" -> a.storyId \in DOMAIN stories
      [] a.pc = "POST_task" -> FreeTaskIds # {}
      [] a.pc \in {"PATCH_task", "GET_task", "PATCH_link"} ->
           /\ a.msg.args.task_id \in DOMAIN tasks
           /\ \A i \in 1..Len(a.sent) : a.sent[i].value # "[Function]"
      [] OTHER -> TRUE

\* The activation a resumed with the answer to the call it waits for; ok
\* says whether the remote tracker answered with success. The result is
\* the activation and the stores as the step leaves them.
Resumed(a, ok) ==
    LET same == [a |-> a, mem |-> memorySessions, kv |-> sessionKV,
                 stories |-> stories, tasks |-> tasks, saved |-> FALSE]
        failed == [same EXCEPT !.a = Throw(a, "RemoteError")]
    IN CASE a.pc = "kv_get" ->
              [same EXCEPT !.a = WithStory(a, KVGet(sessionKV, StoryKey(a.sid)))]
         [] a.pc = "kv_put" ->
              [same EXCEPT !.a = AfterSave(a), !.saved = TRUE,
                           !.kv = KVPut(sessionKV, StoryKey(a.sid), a.msg.args.story_id, NoExpiry)]
         [] a.pc = "GET_story" ->
              IF ~ok THEN failed
              ELSE LET b == [a EXCEPT !.fetched = stories[a.msg.args.story_id]]
                   IN IF env.SESSION_KV THEN [same EXCEPT !.a = [b EXCEPT !.pc = "kv_put"]]
                      ELSE [same EXCEPT !.a = AfterSave(b), !.saved = TRUE,
                                        !.mem = MapPut(memorySessions, StoryKey(a.sid),
                                                       a.msg.args.story_id)]
         [] a.pc = "PATCH_active" ->
              IF ~ok THEN failed
              ELSE [same EXCEPT !.stories = [stories EXCEPT ![a.msg.args.story_id] = "Active"],
                                !.a = Done(a, [rpcResult(a.msg.id, "story set (moved to Active)")
                                               EXCEPT !.state = "Active",
                                                      !.story = a.msg.args.story_id])]
         [] a.pc = "PATCH_resolved" ->
              IF ~ok THEN failed
              ELSE [same EXCEPT !.stories = [stories EXCEPT ![a.storyId] = "Resolved"],
                                !.a = Done(a, [rpcResult(a.msg.id, "story resolved")
                                               EXCEPT !.state = "Resolved", !.story = a.storyId])]
         [] a.pc = "POST_task" ->
              IF ~ok THEN failed
              ELSE LET id == NewTaskIds[CHOOSE i \in FreeTaskIds : \A j \in FreeTaskIds : i <= j]
                   IN [same EXCEPT !.tasks = MapPut(tasks, id, [state |-> "To Do", parent |-> a.storyId]),
                                   !.a = Done(a, [rpcResult(a.msg.id, "task created")
                                                  EXCEPT !.story = a.storyId])]
         [] a.pc = "POST_wiql" ->
              IF ~ok THEN failed
              ELSE LET ids == {t \in DOMAIN tasks : tasks[t].parent = a.storyId}
                   IN IF ids = {}
                      THEN [same EXCEPT !.a = Done(a, [rpcResult(a.msg.id, "tasks")
                                                       EXCEPT !.story = a.storyId])]
                      ELSE [same EXCEPT !.a = Send([a EXCEPT !.ids = ids], "GET_batch", << >>)]
         [] a.pc = "GET_batch" ->
              IF ~ok THEN failed
              ELSE [same EXCEPT !.a = Done(a, [rpcResult(a.msg.id, "tasks")
                                               EXCEPT !.story = a.storyId])]
         [] a.pc = "PATCH_task" ->
              IF ~ok THEN failed
              ELSE LET t == Patched(tasks[a.msg.args.task_id], a.sent)
                   IN [same EXCEPT !.tasks = [tasks EXCEPT ![a.msg.args.task_id] = t],
                                   !.a = Done(a, [rpcResult(a.msg.id, "task updated")
                                                  EXCEPT !.state = t.state])]
         [] a.pc = "GET_task" ->
              IF ~ok THEN failed
              ELSE [same EXCEPT !.a = Done(a, [rpcResult(a.msg.id, "task")
                                               EXCEPT !.state = tasks[a.msg.args.task_id].state])]
         [] a.pc = "PATCH_link" ->
              IF ~ok THEN failed
              ELSE [same EXCEPT !.a = Return(a, "task linked")]
         [] a.pc = "POST_wiql_mine" ->
              IF ~ok THEN failed
              ELSE LET ids == {t \in DOMAIN tasks : tasks[t].state \in {"To Do", "Active"}}
                   IN IF ids = {} THEN [same EXCEPT !.a = Return(a, "tasks")]
                      ELSE [same EXCEPT !.a = Send([a EXCEPT !.ids = ids], "GET_batch_mine", << >>)]
         [] a.pc = "GET_batch_mine" ->
              IF ~ok THEN failed
              ELSE [same EXCEPT !.a = Done(a, [rpcResult(a.msg.id, "tasks")
                                               EXCEPT !.states = {tasks[t].state : t \in a.ids}])]

----------------------------------------------------------------------------
----------------------------------------------------------------------------
(* fetch, from the body to the response                                    *)

\* _sessionId(request)
_sessionId(r) ==
    OrElse(r.mcpSessionId,
           OrElse(r.xSessionId, << "d", "e", "f", "a", "u", "l", "t" >>))

\* The indexes of the activations that are done, in index order
RECURSIVE DoneIndexes(_, _)
DoneIndexes(acts, i) ==
    IF i > Len(acts) THEN << >>
    ELSE (IF acts[i].pc = "done" THEN << i >> ELSE << >>) \o DoneIndexes(acts, i + 1)

\* responses.filter((r) => r !== null), the responses taken in the order
\* idx lists their activations
RECURSIVE NonNull(_, _)
NonNull(acts, idx) ==
    IF idx = << >> THEN << >>
    ELSE (IF acts[Head(idx)].resp.kind # "null" THEN << acts[Head(idx)].resp >> ELSE << >>)
         \o NonNull(acts, Tail(idx))

\* The responses in the order their activations finished
CompletionOrder(r) == r.order

\* The order Promise.all(body.map(...)) gives the responses: that of the
\* envelopes.
ResponseOrder(r) == [i \in 1..Len(r.acts) |-> i]

\* Lines 126-134: the response, once every handleRpc has finished
Replied(r) ==
    IF r.body.kind = "batch"
    THEN [Respond(r, 200) EXCEPT !.respBody = NonNull(r.acts, ResponseOrder(r))]
    ELSE IF r.acts[1].resp.kind = "null" THEN Respond(r, 204)
    ELSE [Respond(r, 200) EXCEPT !.respBody = << r.acts[1].resp >>, !.respSid = r.sid]

\* fetch goes on as soon as the last handleRpc has finished.
Settled(r) ==
    IF \A i \in 1..Len(r.acts) : r.acts[i].pc = "done" THEN Replied(r) ELSE r

\* memorySessions as entry i would find it if every set_story before it in
\* the body had saved its story id by then
RECURSIVE SavedBefore(_, _, _)
SavedBefore(msgs, i, sid) ==
    IF i = 0 THEN memorySessions
    ELSE LET m == SavedBefore(msgs, i - 1, sid)
         IN IF msgs[i].method = "tools/call" /\ msgs[i].name = "set_story"
            THEN MapPut(m, StoryKey(sid), msgs[i].args.story_id) ELSE m

\* Parsed with the entries run in turn: each finds the stories the entries
\* before it name
ParsedInTurn(r) ==
    LET sid == _sessionId(r)
        acts == [i \in 1..Len(r.body.msgs) |->
                    HandleStart(r.body.msgs[i], sid, SavedBefore(r.body.msgs, i - 1, sid))]
    IN Settled([r EXCEPT !.pc = "rpc", !.sid = sid, !.acts = acts,
                         !.order = DoneIndexes(acts, 1)])

\* Lines 124-130 for a body that parsed: every envelope's handleRpc is
\* started, in order, and runs to its first suspension.
Parsed(r) ==
    LET sid == _sessionId(r)
        acts == [i \in 1..Len(r.body.msgs) |-> HandleStart(r.body.msgs[i], sid, memorySessions)]
    IN Settled([r EXCEPT !.pc = "rpc", !.sid = sid, !.acts = acts,
                         !.order = DoneIndexes(acts, 1)])

\* await request.json() answers: a body that is not JSON makes it throw,
\* and the runtime answers 500 for the worker.
ParseBody(p) ==
    /\ reqs[p].pc = "json"
    /\ reqs' = [reqs EXCEPT ![p] =
           IF reqs[p].body.kind = "malformed" THEN Respond(reqs[p], 500)
           ELSE Parsed(reqs[p])]
    /\ UNCHANGED << env, now, storeVars, remoteVars, lastSet, okSet >>

\* The bodies a response of the remote tracker can have: JSON, text that
\* is not JSON, nothing
Bodies == {"json", "text", "empty"}

\* adoRequest from the arrival of the response (lines 211-216), and the
\* handler after it: the body is parsed before res.ok is looked at, so text
\* that is not JSON makes JSON.parse throw whatever the status; a call the
\* tracker answered with success has had its effect there all the same.
RemoteAnswered(a, ok, body) ==
    LET n == Resumed(a, ok)
    IN IF a.pc \in {"kv_get", "kv_put"} \/ body # "text" THEN n
       ELSE [n EXCEPT !.a = Throw(a, "SyntaxError"), !.mem = memorySessions,
                      !.kv = sessionKV, !.saved = FALSE]

\* The answer to the call activation i of request p waits for arrives: ok
\* says whether a call to the remote tracker was answered with success,
\* body what the response held. A KV call always answers; a response
\* without a body is a failure.
Answer(p, i, ok, body) ==
    /\ reqs[p].pc = "rpc"
    /\ i \in 1..Len(reqs[p].acts)
    /\ reqs[p].acts[i].pc \notin {"start", "done"}
    /\ LET a == reqs[p].acts[i]
           n == RemoteAnswered(a, ok, body)
           b == [n.a EXCEPT !.failed = a.pc \notin {"kv_get", "kv_put"} /\ ~ok]
           r == [reqs[p] EXCEPT !.acts[i] = b,
                                !.order = IF b.pc = "done" THEN Append(@, i) ELSE @]
       IN /\ ok => CanSucceed(a)
          /\ a.pc \in {"kv_get", "kv_put"} => (ok /\ body = "json")
          /\ body = "empty" => ~ok
          /\ reqs' = [reqs EXCEPT ![p] = Settled(r)]
          /\ memorySessions' = n.mem
          /\ sessionKV' = n.kv
          /\ stories' = n.stories
          /\ tasks' = n.tasks
          /\ lastSet' = IF n.saved THEN MapPut(lastSet, a.sid, a.msg.args.story_id) ELSE lastSet
          /\ okSet' = IF a.msg.name = "set_story" /\ b.pc = "done" /\ ~b.resp.isError
                      THEN okSet \cup {a.sid} ELSE okSet
    /\ UNCHANGED << env, now, rateLimitKV, rateLimitMemory >>

\* The answer arrives with a JSON body.
Resume(p, i, ok) == Answer(p, i, ok, "json")

----------------------------------------------------------------------------
(* Inputs                                                                  *)

\* The configured shared secret
Secret == << "s", "k" >>

\* CF-Connecting-IP values: an IPv4 address, an IPv6 address whose second
\* group is decimal digits, an IPv6 address whose second group is empty.
IPv4 == << "1", ".", "2" >>
IPv6 == << "2", "a", ":", "4", ":", ":", "1" >>
IPv6Short == << "f", "e", ":", ":", "1" >>

Ping(id) == Envelope("2.0", id, "ping", undefined, NoArgs)

Single(msg) == [kind |-> "single", msgs |-> << msg >>]

Batch(msgs) == [kind |-> "batch", msgs |-> msgs]

Request(method, path, xApiKey, authorization, cfip, body) ==
    [method |-> method, path |-> path, xApiKey |-> xApiKey,
     authorization |-> authorization, cfip |-> cfip, xff |-> Null,
     mcpSessionId |-> Null, xSessionId |-> Null, body |-> body]

----------------------------------------------------------------------------
(* Initial states                                                          *)

Bindings(key, rateKV, sessKV, ado) ==
    [MCP_API_KEY |-> key, RATE_LIMIT_KV |-> rateKV, SESSION_KV |-> sessKV, ADO |-> ado]

NoAuthCase == [key |-> Undefined, xApiKey |-> Null, authorization |-> Null,
               applied |-> FALSE, result |-> FALSE]

\* A fresh isolate: nothing stored, nothing in flight.
Fresh ==
    /\ now = 10000
    /\ rateLimitKV = EmptyMap
    /\ sessionKV = EmptyMap
    /\ rateLimitMemory = EmptyMap
    /\ memorySessions = EmptyMap
    /\ reqs = [p \in Slots |-> IdleReq]
    /\ nreq = 0
    /\ hist = [began |-> 0, log |-> EmptyMap]
    /\ lastSet = EmptyMap
    /\ okSet = {}

SomeStories == [s \in {<< "1" >>, << "2" >>} |-> "Active"]

SomeTasks == [t \in {"t1", "t2"} |-> [state |-> "To Do", parent |-> << "1" >>]]

----------------------------------------------------------------------------
(* The rate limiter under authorized requests that come one at a time      *)

RateRequests ==
    {Request(m, "/mcp", Secret, Null, ip, Single(Ping("1"))) :
        m \in {"POST", "GET"}, ip \in {IPv4, IPv6, Null}}

\* Every request so far came with the CF-Connecting-IP header of r0.
SameSource(r0) == \A q \in Slots : reqs[q].pc # "idle" => reqs[q].cfip = r0.cfip

\* One more check of identity ip, begun at time t
Record(h, ip, t, ok) ==
    LET old == MapGet(h, << ip, t >>, [made |-> 0, allowed |-> 0])
    IN MapPut(h, << ip, t >>, [made |-> old.made + 1,
                               allowed |-> old.allowed + (IF ok THEN 1 ELSE 0)])

\* The history of the checks, kept while requests come one at a time: t
\* is when the _checkRateLimit of slot p began; when this step ends it,
\* its outcome is recorded.
Observed(p, t) ==
    hist' = [began |-> t,
             log |-> IF reqs'[p].pc = "json"
                        \/ (reqs'[p].pc = "done" /\ reqs'[p].status \in {405, 429})
                     THEN Record(hist.log, ClientIP(reqs'[p].cfip, reqs'[p].xff), t,
                                 reqs'[p].status # 429)
                     ELSE hist.log]

InitRate ==
    /\ Fresh
    /\ authCase = NoAuthCase
    /\ \E rateKV, sessKV \in BOOLEAN : env = Bindings(Secret, rateKV, sessKV, TRUE)
    /\ stories = SomeStories
    /\ tasks = SomeTasks

\* One more request is received, while the run has requests left.
Counted == nreq < MaxRequests /\ nreq' = nreq + 1

FetchOne ==
    /\ \E r0 \in RateRequests : SameSource(r0) /\ Fetch(1, r0) /\ Observed(1, now)
    /\ Counted
    /\ UNCHANGED authCase

GetOne == RLGet(1) /\ Observed(1, hist.began) /\ UNCHANGED << nreq, authCase >>

PutOne == RLPut(1) /\ Observed(1, hist.began) /\ UNCHANGED << nreq, authCase >>

BodyOne == ParseBody(1) /\ UNCHANGED << nreq, hist, authCase >>

TickOne == Tick /\ UNCHANGED << nreq, hist, authCase >>

NextRateSeq == FetchOne \/ GetOne \/ PutOne \/ BodyOne \/ TickOne

SpecRateSeq == InitRate /\ [][NextRateSeq]_vars

RECURSIVE SumSet(_, _)
SumSet(S, f) == IF S = {} THEN 0
                ELSE LET x == CHOOSE y \in S : TRUE IN f[x] + SumSet(S \ {x}, f)

\* The checks of identity ip that began in [from, to): how many were made,
\* how many were allowed
In(ip, from, to) == {k \in DOMAIN hist.log : k[1] = ip /\ from <= k[2] /\ k[2] < to}

MadeIn(ip, from, to) == SumSet(In(ip, from, to), [k \in DOMAIN hist.log |-> hist.log[k].made])

AllowedIn(ip, from, to) == SumSet(In(ip, from, to), [k \in DOMAIN hist.log |-> hist.log[k].allowed])

Min(a, b) == IF a <= b THEN a ELSE b

\* C3: of the checks of one identity that arrive one after another in one
\* one-second bucket, the first 10 are allowed and every later one is
\* rejected with retry_after = 1, in every storage tier; the count of the
\* bucket before plays no part.
C3_TenPerBucket ==
    /\ \A k \in DOMAIN hist.log :
          LET from == WindowStart(k[2]) * 1000
          IN AllowedIn(k[1], from, from + 1000) = Min(MadeIn(k[1], from, from + 1000), 10)
    /\ \A p \in Slots : reqs[p].status = 429 => reqs[p].retryAfter = 1

\* C4: the limiter is a sliding window: of the checks of one identity that
\* arrive one after another, at most 10 are allowed in any interval of one
\* second, wherever it starts. Stated for the KV tiers, where every bucket
\* by itself keeps to the limit.
C4_SlidingWindow ==
    RateTier # "memory" =>
        \A k \in DOMAIN hist.log : AllowedIn(k[1], k[2], k[2] + 1000) <= 10

----------------------------------------------------------------------------
(* The rate limiter under authorized requests that overlap                 *)

\* Requests that end at the method gate, from two sources
BurstRequests ==
    {Request("GET", "/mcp", Secret, Null, ip, NoBody) : ip \in {IPv4, IPv6}}

FetchAny ==
    /\ \E p \in Slots, r0 \in BurstRequests : LowestFree(p) /\ SameSource(r0) /\ Fetch(p, r0)
    /\ UNCHANGED << nreq, hist, authCase >>

GetAny == (\E p \in Slots : RLGet(p)) /\ UNCHANGED << nreq, hist, authCase >>

PutAny == (\E p \in Slots : RLPut(p)) /\ UNCHANGED << nreq, hist, authCase >>

NextRate == FetchAny \/ GetAny \/ PutAny \/ TickOne

SpecRate == InitRate /\ [][NextRate]_vars

RateKeyPrefix == << "r", "a", "t", "e", "l", "i", "m", "i", "t", ":" >>

\* The counters a KV namespace holds
Counters(kv) == {k \in DOMAIN kv : StartsWith(k, RateKeyPrefix)}

\* A stored string that is the decimal form of an integer from 1 to 10
OneToTen(v) == ParseInt(v) \in 1..10 /\ ToStr(ParseInt(v)) = v

\* C5: whatever the interleaving of the requests and whatever the tier,
\* every stored counter is an integer from 1 to the limit 10.
C5_CounterInRange ==
    /\ \A k \in Counters(rateLimitKV) : OneToTen(rateLimitKV[k].v)
    /\ \A k \in Counters(sessionKV) : OneToTen(sessionKV[k].v)
    /\ \A k \in DOMAIN rateLimitMemory : rateLimitMemory[k] \in 1..10

\* Two overlapping requests have both read 9 and are both about to store
\* 10, and a third counter of 10 is already stored.
C5_Witness ==
    /\ \E p, q \in Slots :
          /\ p # q
          /\ reqs[p].pc = "rl_put" /\ reqs[q].pc = "rl_put"
          /\ reqs[p].key = reqs[q].key
          /\ reqs[p].count = 10 /\ reqs[q].count = 10
    /\ \E k \in Counters(RateStore) : RateStore[k].v = << "1", "0" >>

----------------------------------------------------------------------------
(* _isAuthorized over secrets and headers                                  *)

AuthKeys == {Undefined, << >>, Secret, BearerPrefix \o Secret}

\* Values of the x-api-key and authorization headers (Null: not sent)
AuthHeaders ==
    {Null, << >>, Secret, << "s" >>, Secret \o << "x" >>,
     BearerPrefix, BearerPrefix \o Secret, BearerPrefix \o Secret \o << " " >>,
     BearerPrefix \o << " " >> \o Secret, BearerPrefix \o BearerPrefix \o Secret,
     << "b", "e", "a", "r", "e", "r", " " >> \o Secret,
     << "B", "e", "a", "r", "e", "r" >> \o Secret}

InitAuth ==
    /\ Fresh
    /\ env = Bindings(Undefined, FALSE, FALSE, TRUE)
    /\ stories = SomeStories
    /\ tasks = SomeTasks
    /\ \E k \in AuthKeys, x \in AuthHeaders, a \in AuthHeaders :
          authCase = [NoAuthCase EXCEPT !.key = k, !.xApiKey = x, !.authorization = a]

\* _isAuthorized is called on the case
Authorize ==
    /\ ~authCase.applied
    /\ authCase' = [authCase EXCEPT
                      !.applied = TRUE,
                      !.result = _isAuthorized(authCase.key, authCase.xApiKey,
                                               authCase.authorization)]
    /\ UNCHANGED << env, now, storeVars, remoteVars, reqs, nreq, hist, lastSet, okSet >>

NextAuth == Authorize

SpecAuth == InitAuth /\ [][NextAuth]_vars

\* C2: with no secret configured (absent or empty) the answer is false
\* whatever the headers; with one configured the answer is true only if
\* x-api-key equals the secret or authorization is exactly "Bearer "
\* followed by the secret.
C2_Authorized ==
    authCase.applied =>
        /\ authCase.key \in {Undefined, << >>} => ~authCase.result
        /\ authCase.result =>
              \/ authCase.xApiKey = authCase.key
              \/ authCase.authorization = << "B", "e", "a", "r", "e", "r", " " >> \o authCase.key

\* A request is let in on its bearer header alone.
C2_Witness ==
    /\ authCase.applied
    /\ authCase.result
    /\ authCase.xApiKey # authCase.key
    /\ authCase.authorization = BearerPrefix \o authCase.key

----------------------------------------------------------------------------
(* The gates of fetch under requests of every kind, one at a time          *)

GateCredentials ==
    {<< Null, Null >>, << Secret, Null >>, << << "s" >>, Null >>, << << >>, Null >>,
     << Null, BearerPrefix \o Secret >>, << Null, Secret >>}

GateRequests ==
    {Request(m, "/mcp", c[1], c[2], IPv4, b) :
        m \in {"GET", "POST"}, c \in GateCredentials,
        b \in {Single(Ping("1")), [kind |-> "malformed", msgs |-> << >>]}}
    \cup {Request("GET", "/health", Null, Null, IPv4, NoBody),
          Request("POST", "/x", Null, Null, IPv4, Single(Ping("1")))}

InitGate ==
    /\ Fresh
    /\ authCase = NoAuthCase
    /\ \E k \in {Undefined, << >>, Secret}, rateKV \in BOOLEAN :
          env = Bindings(k, rateKV, FALSE, TRUE)
    /\ stories = SomeStories
    /\ tasks = SomeTasks

FetchGate ==
    /\ \E r0 \in GateRequests : Fetch(1, r0)
    /\ UNCHANGED << nreq, hist, authCase >>

GetGate == RLGet(1) /\ UNCHANGED << nreq, hist, authCase >>

PutGate == RLPut(1) /\ UNCHANGED << nreq, hist, authCase >>

NextGate == FetchGate \/ GetGate \/ PutGate \/ BodyOne \/ TickOne

SpecGate == InitGate /\ [][NextGate]_vars

\* The request presents the configured shared secret, in one of the two
\* forms.
PresentsSecret(r) ==
    /\ env.MCP_API_KEY # Undefined
    /\ \/ r.xApiKey = env.MCP_API_KEY
       \/ r.authorization = << "B", "e", "a", "r", "e", "r", " " >> \o env.MCP_API_KEY

\* C1: a request to /mcp whose credential is missing or is not the
\* configured secret is answered 401, whatever its method and body and
\* whatever the rate counters hold; it never reaches a later gate.
C1_Unauthorized401 ==
    \A p \in Slots :
        (reqs[p].pc # "idle" /\ reqs[p].path = "/mcp" /\ ~PresentsSecret(reqs[p]))
            => (reqs[p].pc = "done" /\ reqs[p].status = 401)

\* With the counter of its source at the limit, a GET with a wrong key
\* and a body that is not JSON has been answered 401.
C1_Witness ==
    /\ \E k \in DOMAIN rateLimitMemory : rateLimitMemory[k] = 10
    /\ reqs[1].pc = "done"
    /\ reqs[1].status = 401
    /\ reqs[1].method = "GET"
    /\ reqs[1].xApiKey = << "s" >>
    /\ reqs[1].body.kind = "malformed"

----------------------------------------------------------------------------
(* set_story and the story-scoped tools, one request at a time             *)

StoryStates == {"New", "Approved", "Committed", "Design", "Active", "Resolved", ""}

SessionIds == {Null, << "a" >>}

\* An authorized POST to /mcp carrying one tools/call
Call(name, args, session) ==
    [Request("POST", "/mcp", Secret, Null, IPv4, Single(ToolCall("1", name, args)))
        EXCEPT !.mcpSessionId = session]

StoryRequests ==
    {Call("set_story", [NoArgs EXCEPT !.story_id = s], session) :
        s \in {<< "1" >>, << "2" >>, << "9" >>}, session \in SessionIds}
    \cup {Call(n, NoArgs, session) :
            n \in {"task_create", "task_list", "story_resolve"}, session \in SessionIds}

InitTools ==
    /\ Fresh
    /\ authCase = NoAuthCase
    /\ \E sessKV \in BOOLEAN : env = Bindings(Secret, FALSE, sessKV, TRUE)
    /\ \E st \in StoryStates : stories = [SomeStories EXCEPT ![<< "1" >>] = st]
    /\ tasks = SomeTasks

\* One more request is received, while the run has calls left.
CountedCall == nreq < MaxCalls /\ nreq' = nreq + 1

FetchStory ==
    /\ \E r0 \in StoryRequests : Fetch(1, r0)
    /\ CountedCall
    /\ UNCHANGED << hist, authCase >>

ResumeOne ==
    /\ \E i \in 1..Len(reqs[1].acts), ok \in BOOLEAN : Resume(1, i, ok)
    /\ UNCHANGED << nreq, hist, authCase >>

NextTools == FetchStory \/ GetGate \/ PutGate \/ BodyOne \/ ResumeOne

SpecTools == InitTools /\ [][NextTools]_vars

\* The activations of handleRpc that exist
Activations == UNION {{reqs[p].acts[i] : i \in 1..Len(reqs[p].acts)} : p \in Slots}

ToolActs(names) ==
    {a \in Activations : a.msg.method = "tools/call" /\ a.msg.name \in names
                         /\ a.msg.id # undefined}

StoryScoped == {"task_create", "task_list", "story_resolve"}

\* C6: a story-scoped tool called in a session none of whose set_story
\* calls has succeeded fails with NoActiveStory and has sent nothing to the
\* remote tracker; one that runs, runs against the story the session's
\* last set_story named, which no other session's set_story changes.
C6_StoryPerSession ==
    \A a \in ToolActs(StoryScoped) :
        /\ (a.sid \notin okSet /\ a.pc = "done") =>
              (a.resp.isError /\ a.resp.text = "NoActiveStory" /\ a.calls = 0)
        /\ a.storyId # Undefined =>
              (a.sid \in DOMAIN lastSet /\ a.storyId = lastSet[a.sid])

\* C7: set_story sends one state write, of "Active", when the state it
\* fetched is New, Approved, Committed or Design, and none for any other
\* fetched state; it returns "Active" in the first case and the fetched
\* state otherwise.
C7_TransitionOnce ==
    \A a \in ToolActs({"set_story"}) :
        (a.fetched # undefined /\ a.pc \in {"PATCH_active", "done"}) =>
            IF a.fetched \in {"New", "Approved", "Committed", "Design"}
            THEN /\ a.writes = 1
                 /\ a.calls = 2
                 /\ a.pc = "PATCH_active" => a.sent = << Op("System.State", "Active") >>
                 /\ (a.pc = "done" /\ ~a.resp.isError) =>
                       (a.resp.state = "Active" /\ stories[a.msg.args.story_id] = "Active")
            ELSE /\ a.writes = 0
                 /\ a.calls = 1
                 /\ a.pc = "done"
                 /\ ~a.resp.isError
                 /\ a.resp.state = a.fetched
                 /\ stories[a.msg.args.story_id] = a.fetched

\* A set_story has found its story Committed, has sent the one write and
\* has answered "Active".
C7_Witness ==
    \E a \in ToolActs({"set_story"}) :
        /\ a.pc = "done"
        /\ a.fetched = "Committed"
        /\ a.writes = 1
        /\ ~a.resp.isError
        /\ a.resp.state = "Active"
        /\ stories[a.msg.args.story_id] = "Active"

----------------------------------------------------------------------------
(* task_update under arguments of every kind, one request at a time        *)

UpdateRequests ==
    {Call("task_update",
          [NoArgs EXCEPT !.task_id = t, !.status = st, !.subject = su,
                         !.description = d, !.owner = o], Null) :
        t \in {"t1", "t9"},
        st \in {undefined, "", "pending", "in_progress", "completed", "deleted",
                "done", "constructor"},
        su \in {undefined, "", "S"}, d \in {undefined}, o \in {undefined, "O"}}
    \cup {Call("set_story", [NoArgs EXCEPT !.story_id = << "1" >>], Null)}

InitUpdate ==
    /\ Fresh
    /\ authCase = NoAuthCase
    /\ \E sessKV \in BOOLEAN : env = Bindings(Secret, FALSE, sessKV, TRUE)
    /\ stories = SomeStories
    /\ tasks = SomeTasks

FetchUpdate ==
    /\ \E r0 \in UpdateRequests : Fetch(1, r0)
    /\ CountedCall
    /\ UNCHANGED << hist, authCase >>

NextUpdate == FetchUpdate \/ GetGate \/ PutGate \/ BodyOne \/ ResumeOne

SpecUpdate == InitUpdate /\ [][NextUpdate]_vars

\* C8: task_update with status pending, in_progress, completed or deleted
\* writes the state "To Do", "Active", "Closed" or "Removed"; with any
\* other status that is supplied (and is not the empty string) it fails
\* with InvalidStatus, naming the four values, and sends nothing to the
\* remote tracker.
C8_StatusMapping ==
    \A a \in ToolActs({"task_update"}) :
        LET st == a.msg.args.status
            remote == CASE st = "pending" -> "To Do"
                        [] st = "in_progress" -> "Active"
                        [] st = "completed" -> "Closed"
                        [] st = "deleted" -> "Removed"
                        [] OTHER -> undefined
        IN IF st \in {"pending", "in_progress", "completed", "deleted"}
           THEN /\ a.pc = "PATCH_task" =>
                     (a.writes = 1 /\ \E i \in 1..Len(a.sent) :
                                         a.sent[i] = Op("System.State", remote))
                /\ (a.pc = "done" /\ ~a.resp.isError) =>
                     (a.resp.state = remote /\ tasks[a.msg.args.task_id].state = remote)
           ELSE st \notin {undefined, ""} =>
                  /\ a.pc = "done"
                  /\ a.resp.isError
                  /\ a.resp.text = "InvalidStatus"
                  /\ a.resp.names = << "pending", "in_progress", "completed", "deleted" >>
                  /\ a.calls = 0

NoFields(args) ==
    /\ args.status = undefined
    /\ args.subject = undefined
    /\ args.description = undefined
    /\ args.owner = undefined

\* C9: task_update with none of status, subject, description and owner
\* supplied answers with the no-op message and no error, has sent nothing
\* to the remote tracker, and the step that runs it leaves the remote
\* work items and the session contexts as they were.
C9_NoOp ==
    /\ [](\A a \in ToolActs({"task_update"}) :
             NoFields(a.msg.args) =>
                 /\ a.pc = "done"
                 /\ ~a.resp.isError
                 /\ a.resp.text = "No fields to update"
                 /\ a.calls = 0
                 /\ a.writes = 0)
    /\ [][(/\ reqs[1].pc = "json"
           /\ reqs[1].body.kind = "single"
           /\ reqs[1].body.msgs[1].name = "task_update"
           /\ NoFields(reqs[1].body.msgs[1].args))
          => (/\ reqs'[1].pc = "done"
              /\ reqs'[1].status = 200
              /\ tasks' = tasks
              /\ stories' = stories
              /\ memorySessions' = memorySessions
              /\ sessionKV' = sessionKV)]_vars

\* In a session that has an active story, a task_update with no field has
\* been answered.
C9_Witness ==
    /\ lastSet # EmptyMap
    /\ reqs[1].pc = "done"
    /\ reqs[1].status = 200
    /\ \E a \in ToolActs({"task_update"}) :
          /\ NoFields(a.msg.args)
          /\ a.resp.text = "No fields to update"
          /\ a.calls = 0

----------------------------------------------------------------------------
(* Batched bodies, one request at a time                                   *)

\* A request with a response at once, two whose handlers wait for the
\* remote tracker, a notification, and a request of another protocol
\* version
BatchMenu ==
    {Ping("1"),
     ToolCall("2", "task_get", [NoArgs EXCEPT !.task_id = "t1"]),
     ToolCall("3", "task_get", [NoArgs EXCEPT !.task_id = "t1"]),
     Envelope("2.0", undefined, "ping", undefined, NoArgs),
     Envelope("1.0", "5", "ping", undefined, NoArgs)}

BatchRequests ==
    {Request("POST", "/mcp", Secret, Null, IPv4, Batch(msgs)) :
        msgs \in UNION {[1..n -> BatchMenu] : n \in 0..MaxBatch}}

InitBatch ==
    /\ Fresh
    /\ authCase = NoAuthCase
    /\ env = Bindings(Secret, FALSE, FALSE, TRUE)
    /\ stories = SomeStories
    /\ tasks = SomeTasks

\* The first request a fresh isolate receives is a batch.
FetchBatch ==
    /\ reqs[1].pc = "idle"
    /\ \E r0 \in BatchRequests : Fetch(1, r0)
    /\ UNCHANGED << nreq, hist, authCase >>

NextBatch == FetchBatch \/ BodyOne \/ ResumeOne

SpecBatch == InitBatch /\ [][NextBatch]_vars

\* A notification: a request without an id
IsNotification(msg) == msg.id = undefined

RECURSIVE RequestIds(_)
RequestIds(msgs) ==
    IF msgs = << >> THEN << >>
    ELSE (IF IsNotification(Head(msgs)) THEN << >> ELSE << Head(msgs).id >>)
         \o RequestIds(Tail(msgs))

\* C10: the response to a batch holds one response for each entry that is
\* not a notification, in the order of the entries and with their ids,
\* whatever order the entries finished in; notifications give no element.
C10_BatchOrder ==
    \A p \in Slots :
        (reqs[p].pc = "done" /\ reqs[p].body.kind = "batch" /\ reqs[p].status = 200) =>
            /\ Len(reqs[p].respBody) = Len(RequestIds(reqs[p].body.msgs))
            /\ \A i \in 1..Len(reqs[p].respBody) :
                  /\ reqs[p].respBody[i].id = RequestIds(reqs[p].body.msgs)[i]
                  /\ reqs[p].respBody[i].kind # "null"

\* A batch of a request, a notification and a request, the second request
\* finished before the first, has been answered.
C10_Witness ==
    /\ reqs[1].pc = "done"
    /\ reqs[1].status = 200
    /\ reqs[1].body.kind = "batch"
    /\ Len(reqs[1].body.msgs) = 3
    /\ reqs[1].order = << 2, 3, 1 >>
    /\ Len(reqs[1].respBody) = 2
    /\ reqs[1].respBody[1].id = "2"
    /\ reqs[1].respBody[2].id = "3"

----------------------------------------------------------------------------
(* Envelopes of every kind, in the first request of a fresh isolate        *)

EnvelopeMenu ==
    {Ping("1"),
     Envelope("2.0", "2", "initialize", undefined, NoArgs),
     Envelope("2.0", "3", "tools/list", undefined, NoArgs),
     Envelope("2.0", undefined, "ping", undefined, NoArgs),
     Envelope("2.0", undefined, "notifications/initialized", undefined, NoArgs),
     Envelope("2.0", "4", "notifications/initialized", undefined, NoArgs),
     Envelope("2.0", "6", "foo", undefined, NoArgs),
     Envelope("2.0", undefined, "foo", undefined, NoArgs),
     Envelope("1.0", "5", "ping", undefined, NoArgs),
     Envelope("1.0", undefined, "ping", undefined, NoArgs),
     Envelope("2.0", "7", undefined, undefined, NoArgs),
     NullEnvelope,
     ToolCall("8", "task_create", [NoArgs EXCEPT !.subject = "S", !.description = "D"]),
     ToolCall("9", "task_get", [NoArgs EXCEPT !.task_id = "t1"]),
     ToolCall(undefined, "task_get", [NoArgs EXCEPT !.task_id = "t1"])}

EnvelopeRequests ==
    {Request("POST", "/mcp", Secret, Null, IPv4, b) :
        b \in {Single(m) : m \in EnvelopeMenu}
              \cup {Batch(<< m1, m2 >>) : m1 \in EnvelopeMenu, m2 \in EnvelopeMenu}
              \cup {Batch(<< >>)}}

InitEnvelope ==
    /\ Fresh
    /\ authCase = NoAuthCase
    /\ \E ado \in BOOLEAN : env = Bindings(Secret, FALSE, FALSE, ado)
    /\ stories = SomeStories
    /\ tasks = SomeTasks

\* The first request a fresh isolate receives
FetchEnvelope ==
    /\ reqs[1].pc = "idle"
    /\ \E r0 \in EnvelopeRequests : Fetch(1, r0)
    /\ UNCHANGED << nreq, hist, authCase >>

NextEnvelope == FetchEnvelope \/ BodyOne \/ ResumeOne

SpecEnvelope == InitEnvelope /\ [][NextEnvelope]_vars

\* An envelope with the "2.0" tag and a method that is a string
WellFormed(msg) == ~msg.falsy /\ msg.jsonrpc = "2.0" /\ msg.method # undefined

\* A well-formed envelope that is to get no response
Silent(msg) ==
    WellFormed(msg) /\ (msg.method = "notifications/initialized" \/ msg.id = undefined)

RECURSIVE Responders(_)
Responders(msgs) ==
    IF msgs = << >> THEN << >>
    ELSE (IF Silent(Head(msgs)) THEN << >> ELSE << Head(msgs) >>) \o Responders(Tail(msgs))

\* The request has got past the gates and has been answered
Answered(r) == r.pc = "done" /\ r.path = "/mcp" /\ r.status \in {200, 204}

\* C11: a well-formed envelope that is notifications/initialized or has no
\* id gets no response (204 with no body when it is the whole request, no
\* element in a batch); every other well-formed envelope gets exactly one
\* response, with its id.
C11_Notifications ==
    \A p \in Slots :
        Answered(reqs[p]) =>
            LET r == reqs[p]
                expected == Responders(r.body.msgs)
            IN /\ (r.body.kind = "single" /\ Silent(r.body.msgs[1])) =>
                     (r.status = 204 /\ r.respBody = << >>)
               /\ (r.body.kind = "single" /\ ~Silent(r.body.msgs[1])) => r.status = 200
               /\ Len(r.respBody) = Len(expected)
               /\ \A i \in 1..Len(expected) :
                     WellFormed(expected[i]) =>
                        (r.respBody[i].id = expected[i].id /\ r.respBody[i].kind # "null")

\* A batch of notifications/initialized sent with an id and a ping has
\* been answered with the one response of the ping.
C11_Witness ==
    /\ Answered(reqs[1])
    /\ reqs[1].body.kind = "batch"
    /\ Len(reqs[1].body.msgs) = 2
    /\ reqs[1].body.msgs[1].method = "notifications/initialized"
    /\ reqs[1].body.msgs[1].id = "4"
    /\ reqs[1].body.msgs[2] = Ping("1")
    /\ Len(reqs[1].respBody) = 1
    /\ reqs[1].respBody[1].id = "1"

\* C12: every response is a result or an error, never both or neither: a
\* malformed envelope gets error -32600 with the id it carried, an unknown
\* method error -32601, and a tools/call a result, with isError content
\* when its handler threw; the request itself is answered 200 or 204.
C12_ResultOrError ==
    /\ \A a \in Activations :
          (a.pc = "done" /\ ~Silent(a.msg)) =>
              /\ a.resp.kind \in {"result", "error"}
              /\ a.resp.id = a.msg.id
              /\ ~WellFormed(a.msg) =>
                    (a.resp.kind = "error" /\ a.resp.code = 0 - 32600)
              /\ (WellFormed(a.msg)
                  /\ a.msg.method \notin {"initialize", "ping", "tools/list", "tools/call"}) =>
                    (a.resp.kind = "error" /\ a.resp.code = 0 - 32601)
              /\ (WellFormed(a.msg)
                  /\ a.msg.method \in {"initialize", "ping", "tools/list", "tools/call"}) =>
                    a.resp.kind = "result"
              /\ a.resp.isError =>
                    a.resp.text \in {"NoActiveStory", "RemoteError", "ConfigError"}
              /\ a.resp.kind = "error" => ~a.resp.isError
    /\ \A p \in Slots :
          (reqs[p].pc = "done" /\ reqs[p].acts # << >>) => reqs[p].status \in {200, 204}

\* A task_create without an active story and a task_get the remote
\* tracker refused have both been answered with isError results.
C12_Witness ==
    /\ Answered(reqs[1])
    /\ Len(reqs[1].respBody) = 2
    /\ reqs[1].respBody[1].kind = "result"
    /\ reqs[1].respBody[1].isError
    /\ reqs[1].respBody[1].text = "NoActiveStory"
    /\ reqs[1].respBody[2].kind = "result"
    /\ reqs[1].respBody[2].isError
    /\ reqs[1].respBody[2].text = "RemoteError"

----------------------------------------------------------------------------
(* tools/call with every tool name, with and without arguments             *)

\* TOOL_DEFS: the names of the catalog, the fields each schema requires,
\* the values the one enumeration allows
ToolNames ==
    {"set_story", "task_create", "task_update", "task_list", "task_get",
     "task_link", "task_list_mine", "story_resolve"}

Required(name) ==
    CASE name = "set_story" -> {"story_id"}
      [] name = "task_create" -> {"subject", "description"}
      [] name = "task_update" -> {"task_id"}
      [] name = "task_get" -> {"task_id"}
      [] name = "task_link" -> {"task_id", "depends_on_id"}
      [] OTHER -> {}

StatusEnum == {"pending", "in_progress", "completed", "deleted"}

Missing(args, f) == IF f = "story_id" THEN args.story_id = Undefined ELSE args[f] = undefined

\* The arguments do not satisfy the inputSchema of the tool
SchemaViolated(name, args) ==
    \/ \E f \in Required(name) : Missing(args, f)
    \/ name = "task_update" /\ args.status # undefined /\ args.status \notin StatusEnum

FullArgs ==
    [NoArgs EXCEPT !.story_id = << "1" >>, !.task_id = "t1", !.status = "pending",
                   !.subject = "S", !.description = "D", !.owner = "O",
                   !.depends_on_id = "t2"]

CallRequests ==
    {Call(n, args, Null) :
        n \in ToolNames \cup {undefined, "bogus"},
        args \in {NoArgs, FullArgs, [FullArgs EXCEPT !.status = "done"]}}

FetchCall ==
    /\ \E r0 \in CallRequests : Fetch(1, r0)
    /\ CountedCall
    /\ UNCHANGED << hist, authCase >>

NextCalls == FetchCall \/ GetGate \/ PutGate \/ BodyOne \/ ResumeOne

SpecCalls == InitUpdate /\ [][NextCalls]_vars

\* C13: a tools/call whose name is absent or is none of the eight names of
\* the catalog is answered with a JSON-RPC error object, not with result
\* content, and nothing has been sent to the remote tracker; the eight
\* names are never taken for unknown.
C13_UnknownTool ==
    \A a \in Activations :
        (a.msg.method = "tools/call" /\ a.msg.id # undefined /\ a.pc # "start") =>
            IF a.msg.name \in {"set_story", "task_create", "task_update", "task_list",
                               "task_get", "task_link", "task_list_mine", "story_resolve"}
            THEN a.resp.text # "UnknownTool"
            ELSE /\ a.pc = "done"
                 /\ a.calls = 0
                 /\ a.resp.kind = "error"

\* C14: a call whose arguments violate the schema of its tool (a required
\* field missing, a status outside the enumeration) fails with nothing
\* sent to the remote tracker and with the session's story left alone.
C14_SchemaFirst ==
    \A a \in ToolActs(ToolNames) :
        SchemaViolated(a.msg.name, a.msg.args) =>
            /\ a.calls = 0
            /\ a.pc = "done"
            /\ a.resp.isError

----------------------------------------------------------------------------
(* task_list_mine while other requests update tasks                        *)

MineRequests ==
    {Call("task_list_mine", NoArgs, Null),
     Call("task_update", [NoArgs EXCEPT !.task_id = "t1", !.status = "completed"], Null),
     Call("task_update", [NoArgs EXCEPT !.task_id = "t2", !.status = "deleted"], Null)}

FetchMine ==
    /\ \E p \in Slots, r0 \in MineRequests : LowestFree(p) /\ Fetch(p, r0)
    /\ CountedCall
    /\ UNCHANGED << hist, authCase >>

BodyAny == (\E p \in Slots : ParseBody(p)) /\ UNCHANGED << nreq, hist, authCase >>

ResumeAny ==
    /\ \E p \in Slots : \E i \in 1..Len(reqs[p].acts), ok \in BOOLEAN : Resume(p, i, ok)
    /\ UNCHANGED << nreq, hist, authCase >>

NextMine == FetchMine \/ BodyAny \/ ResumeAny

SpecMine == InitBatch /\ [][NextMine]_vars

\* C15: no task in a result of task_list_mine has the state "Closed" or
\* "Removed", whatever other requests do to the tasks between its query
\* for the ids and its fetch of their fields.
C15_MineOpenOnly ==
    \A a \in ToolActs({"task_list_mine"}) :
        (a.pc = "done" /\ ~a.resp.isError) =>
            a.resp.states \cap {"Closed", "Removed"} = {}

----------------------------------------------------------------------------
(* The HTTP status of a response                                           *)

\* A secret is configured and the request presents it
Authorized(r) == env.MCP_API_KEY \notin {Undefined, << >>} /\ PresentsSecret(r)

StatusByPath(r) ==
    /\ (r.method = "GET" /\ r.path = "/health") => r.status = 200
    /\ (r.path # "/mcp" /\ ~(r.method = "GET" /\ r.path = "/health")) => r.status = 404

\* C16 as stated: GET /health is answered 200 without a credential, any
\* other path than /mcp 404, and an authorized request to /mcp that is not
\* a POST 405 whatever the rate counters hold.
C16_StatusWhateverCounters ==
    \A p \in Slots :
        reqs[p].pc = "done" =>
            /\ StatusByPath(reqs[p])
            /\ (reqs[p].path = "/mcp" /\ Authorized(reqs[p]) /\ reqs[p].method # "POST")
                  => reqs[p].status = 405

\* The count _checkRateLimit reads for the request of slot p in the step
\* that answers it
CountRead(p) ==
    IF reqs[p].pc = "rl_get" THEN StoredCount(KVGet(RateStore, reqs[p].key))
    ELSE IF reqs[p].pc = "rl_put" THEN 0
    ELSE MapGet(CleanUp(rateLimitMemory, WindowStart(now)),
                RateKey(ClientIP(reqs'[p].cfip, reqs'[p].xff), WindowStart(now)), 0)

\* C16, amended: GET /health is answered 200 without a credential, any
\* other path than /mcp 404, and an authorized request to /mcp that is not
\* a POST is answered 405 when the rate limiter lets it pass and 429 when
\* the count the limiter reads has reached the limit.
C16_Status ==
    /\ [](\A p \in Slots : reqs[p].pc = "done" => StatusByPath(reqs[p]))
    /\ [][\A p \in Slots :
            (/\ reqs'[p] # reqs[p]
             /\ reqs'[p].pc = "done"
             /\ reqs'[p].path = "/mcp"
             /\ Authorized(reqs'[p])
             /\ reqs'[p].method # "POST")
            => reqs'[p].status = (IF CountRead(p) >= 10 THEN 429 ELSE 405)]_vars

\* An authorized GET to /mcp has been answered 405 with the counter of its
\* source at 10: it was the tenth request of its bucket.
C16_Witness ==
    /\ reqs[1].pc = "done"
    /\ reqs[1].path = "/mcp"
    /\ reqs[1].method = "GET"
    /\ reqs[1].xApiKey = Secret
    /\ reqs[1].status = 405
    /\ \E k \in DOMAIN rateLimitMemory : rateLimitMemory[k] = 10

----------------------------------------------------------------------------
(* The session id of a request and the header that echoes it               *)

SessionRequests ==
    {[Request("POST", "/mcp", Secret, Null, IPv4, b)
         EXCEPT !.mcpSessionId = m, !.xSessionId = x] :
        m \in {Null, << >>, << "a" >>}, x \in {Null, << "b" >>},
        b \in {Single(e) : e \in EnvelopeMenu} \cup {Batch(<< e >>) : e \in EnvelopeMenu}}

FetchSession ==
    /\ reqs[1].pc = "idle"
    /\ \E r0 \in SessionRequests : Fetch(1, r0)
    /\ UNCHANGED << nreq, hist, authCase >>

NextSession == FetchSession \/ BodyOne \/ ResumeOne

SpecSession == InitEnvelope /\ [][NextSession]_vars

\* C17: the session id of a request is its mcp-session-id header, else
\* its x-session-id header, else "default", and every response to a
\* request that reached the envelopes (one envelope, a batch, a
\* notification) carries it in Mcp-Session-Id.
C17_SessionEcho ==
    \A p \in Slots :
        Answered(reqs[p]) =>
            LET r == reqs[p]
                resolved == IF r.mcpSessionId \notin {Null, << >>} THEN r.mcpSessionId
                            ELSE IF r.xSessionId \notin {Null, << >>} THEN r.xSessionId
                            ELSE << "d", "e", "f", "a", "u", "l", "t" >>
            IN r.sid = resolved /\ r.respSid = resolved

----------------------------------------------------------------------------
(* Tool calls while the remote tracker answers with bodies of every kind   *)

RemoteRequests ==
    {Call("set_story", [NoArgs EXCEPT !.story_id = << "1" >>], Null),
     Call("task_create", FullArgs, Null),
     Call("task_list", NoArgs, Null),
     Call("task_get", FullArgs, Null),
     Call("task_update", FullArgs, Null),
     Call("task_list_mine", NoArgs, Null)}

FetchRemote ==
    /\ \E r0 \in RemoteRequests : Fetch(1, r0)
    /\ CountedCall
    /\ UNCHANGED << hist, authCase >>

AnswerOne ==
    /\ \E i \in 1..Len(reqs[1].acts), ok \in BOOLEAN, body \in Bodies : Answer(1, i, ok, body)
    /\ UNCHANGED << nreq, hist, authCase >>

NextRemote == FetchRemote \/ GetGate \/ PutGate \/ BodyOne \/ AnswerOne

SpecRemote == InitTools /\ [][NextRemote]_vars

\* C18: a tool call one of whose calls the remote tracker answered with a
\* status that is not a success, whatever the body, ends as a tool error
\* whose message holds the status and the body text; it never returns a
\* success result.
C18_RemoteError ==
    \A a \in Activations :
        a.failed =>
            /\ a.pc = "done"
            /\ a.resp.kind = "result"
            /\ a.resp.isError
            /\ a.resp.text = "RemoteError"

----------------------------------------------------------------------------
(* The session's story after set_story                                     *)

\* getActiveStoryId(env, sessionId): what the session store holds
ActiveStory(sid) ==
    IF env.SESSION_KV THEN KVGet(sessionKV, StoryKey(sid))
    ELSE MapGet(memorySessions, StoryKey(sid), Undefined)

\* C19: after a set_story(S) that returned success the session's active
\* story is S, with or without a transition; a set_story that ended in a
\* tool error has left the session's story as it was, so a session none
\* of whose set_story calls has succeeded has no active story.
C19_StoryMatchesOutcome ==
    \A a \in ToolActs({"set_story"}) :
        a.pc = "done" =>
            /\ ~a.resp.isError => ActiveStory(a.sid) = a.msg.args.story_id
            /\ (a.resp.isError /\ a.sid \notin okSet) =>
                  ActiveStory(a.sid) \in {Null, Undefined}

----------------------------------------------------------------------------
(* The stored counters from one step to the next                           *)

\* C20: while a counter exists its stored value never decreases: every
\* write stores at least the value stored before it, however the
\* requests interleave.
C20_CounterMonotone ==
    [][/\ \A k \in Counters(rateLimitKV) \cap Live(rateLimitKV) :
             ParseInt(rateLimitKV'[k].v) >= ParseInt(rateLimitKV[k].v)
       /\ \A k \in Counters(sessionKV) \cap Live(sessionKV) :
             ParseInt(sessionKV'[k].v) >= ParseInt(sessionKV[k].v)
       /\ \A k \in DOMAIN rateLimitMemory \cap DOMAIN rateLimitMemory' :
             rateLimitMemory'[k] >= rateLimitMemory[k]]_vars

----------------------------------------------------------------------------
(* The rate limiter when its store is unavailable                          *)

StoreRequests ==
    {Request(m, "/mcp", Secret, Null, IPv4, Single(Ping("1"))) : m \in {"POST", "GET"}}

FetchStore ==
    /\ \E r0 \in StoreRequests : Fetch(1, r0)
    /\ Counted
    /\ UNCHANGED << hist, authCase >>

FailOne == RLFails(1) /\ UNCHANGED << nreq, hist, authCase >>

NextStore == FetchStore \/ GetGate \/ PutGate \/ FailOne \/ BodyOne \/ TickOne

SpecStore == InitRate /\ [][NextStore]_vars

\* C21: the rate limiter fails open: a request whose read or write of the
\* rate-limit store failed is treated as allowed: it goes on to the method
\* check and the handling of its body, and is answered 405, 200 or 204,
\* never denied and never aborted.
C21_FailOpen ==
    \A p \in Slots :
        reqs[p].storeFailed =>
            \/ reqs[p].pc \in {"json", "rpc"}
            \/ reqs[p].pc = "done" /\ reqs[p].status \in {200, 204, 405}

----------------------------------------------------------------------------
(* The clean-up of the in-memory counters over several seconds             *)

\* seconds the clock moves on over a run
MaxSeconds == 4
\* checks of the limiter over a run
MaxChecks == 4

EvictRequests ==
    {Request("GET", "/mcp", Secret, Null, ip, NoBody) : ip \in {IPv4, IPv6, IPv6Short}}

InitEvict ==
    /\ Fresh
    /\ authCase = NoAuthCase
    /\ env = Bindings(Secret, FALSE, FALSE, TRUE)
    /\ stories = SomeStories
    /\ tasks = SomeTasks

FetchEvict ==
    /\ \E r0 \in EvictRequests : Fetch(1, r0)
    /\ nreq < MaxChecks
    /\ nreq' = nreq + 1
    /\ UNCHANGED << hist, authCase >>

\* The clock moves on by one second.
Elapse ==
    /\ now + 1000 <= 10000 + 1000 * MaxSeconds
    /\ now' = now + 1000
    /\ UNCHANGED << env, storeVars, remoteVars, reqs, lastSet, okSet, nreq, hist, authCase >>

NextEvict == FetchEvict \/ Elapse

SpecEvict == InitEvict /\ [][NextEvict]_vars

\* The bucket a counter belongs to: the number `ratelimit:${clientIP}:${windowStart}`
\* ends with.
KeyBucket(k) == ParseInt(At(Split(k, ":"), Len(Split(k, ":")) - 1))

\* C22: on the local-memory tier, after every check made in bucket b the
\* map holds no counter of a bucket older than b - 2 and still holds every
\* counter of bucket b - 2 or newer that it held before, whatever the
\* identity, identities that contain ':' included.
C22_Eviction ==
    [][nreq' # nreq =>
          LET b == WindowStart(now)
          IN /\ \A k \in DOMAIN rateLimitMemory' : KeyBucket(k) >= b - 2
             /\ \A k \in DOMAIN rateLimitMemory :
                    KeyBucket(k) >= b - 2 => k \in DOMAIN rateLimitMemory']_vars

----------------------------------------------------------------------------
(* The in-memory limiter under requests that overlap                       *)

\* Requests that end at the method gate and requests that stay in flight
\* while their body is awaited
OverlapRequests ==
    {Request("GET", "/mcp", Secret, Null, ip, NoBody) : ip \in {IPv4, IPv6}}
    \cup {Request("POST", "/mcp", Secret, Null, ip, Single(Ping("1"))) : ip \in {IPv4, IPv6}}

FetchOverlap ==
    /\ \E p \in Slots, r0 \in OverlapRequests :
          LowestFree(p) /\ SameSource(r0) /\ Fetch(p, r0) /\ Observed(p, now)
    /\ Counted
    /\ UNCHANGED authCase

NextOverlap == FetchOverlap \/ BodyAny \/ TickOne

SpecOverlap == InitEvict /\ [][NextOverlap]_vars

\* C23: on the local-memory tier the check and the record of one request
\* run without suspension, so however the requests overlap at most 10 of
\* one identity are allowed in one bucket.
C23_MemoryStrict ==
    \A k \in DOMAIN hist.log :
        LET from == WindowStart(k[2]) * 1000
        IN AllowedIn(k[1], from, from + 1000) <= 10

----------------------------------------------------------------------------
(* What a request does to the rate-limit counters                          *)

\* Requests to /mcp with the secret, one without it, a health check and a
\* request to another path, from each of two sources
FrameRequests ==
    UNION {{Request("GET", "/mcp", Secret, Null, ip, NoBody),
            Request("POST", "/mcp", Secret, Null, ip, Single(Ping("1"))),
            Request("POST", "/mcp", << "s" >>, Null, ip, Single(Ping("1"))),
            Request("GET", "/health", Null, Null, ip, NoBody),
            Request("POST", "/x", Secret, Null, ip, Single(Ping("1")))} :
           ip \in {IPv4, IPv6}}

FetchFrame ==
    /\ \E r0 \in FrameRequests : SameSource(r0) /\ Fetch(1, r0)
    /\ Counted
    /\ UNCHANGED << hist, authCase >>

NextFrame == FetchFrame \/ GetGate \/ PutGate \/ BodyOne \/ TickOne

SpecFrame == InitRate /\ [][NextFrame]_vars

\* The counter of key k in the store the limiter uses, given the map and
\* the namespace: 0 when there is none
CounterOf(mem, kv, k) ==
    IF RateTier = "memory" THEN MapGet(mem, k, 0)
    ELSE StoredCount(KVGet(kv, k))

\* This step answers the request of slot p with the given status.
Answers(p, status) ==
    /\ reqs[p].pc # "done" \/ nreq' # nreq
    /\ reqs'[p].pc = "done"
    /\ reqs'[p].status = status

\* This step ends the check of the request of slot p with "allowed".
Allows(p) ==
    /\ \/ RateTier = "memory" /\ nreq' # nreq
       \/ reqs[p].pc = "rl_put"
    /\ reqs'[p].pc = "json" \/ (reqs'[p].pc = "done" /\ reqs'[p].status = 405)

\* C24: requests answered 200 on /health, 404, 401 or 429 leave every
\* durable counter as it was, and every authorized request to /mcp that
\* the limiter allows raises the counter of its identity and bucket by
\* one before the method check, a request answered 405 included.
C24_CountersFrame ==
    [][\A p \in Slots :
          /\ (\/ Answers(p, 200) /\ reqs'[p].path = "/health"
              \/ Answers(p, 404) \/ Answers(p, 401) \/ Answers(p, 429))
                => (rateLimitKV' = rateLimitKV /\ sessionKV' = sessionKV)
          /\ Allows(p) =>
                LET k == IF RateTier = "memory"
                         THEN RateKey(ClientIP(reqs'[p].cfip, reqs'[p].xff), WindowStart(now))
                         ELSE reqs[p].key
                IN CounterOf(rateLimitMemory', RateStore', k)
                       = CounterOf(rateLimitMemory, RateStore, k) + 1]_vars

----------------------------------------------------------------------------
(* set_story and a story-scoped call in one batch                          *)

\* The story the batch names and the story set before it
StoryS == << "1" >>
StoryP == << "2" >>

SetAndCreate ==
    << ToolCall("1", "set_story", [NoArgs EXCEPT !.story_id = StoryS]),
       ToolCall("2", "task_create", [NoArgs EXCEPT !.subject = "s"]) >>

SiblingRequests ==
    {Call("set_story", [NoArgs EXCEPT !.story_id = StoryP], Null),
     Request("POST", "/mcp", Secret, Null, IPv4, Batch(SetAndCreate)),
     Request("POST", "/mcp", Secret, Null, IPv4,
             Batch(<< SetAndCreate[2], SetAndCreate[1] >>))}

FetchSibling ==
    /\ \E r0 \in SiblingRequests : Fetch(1, r0)
    /\ CountedCall
    /\ UNCHANGED << hist, authCase >>

\* The body arrives and its entries are started; the story their session
\* has at this moment is kept.
BodySibling ==
    /\ ParseBody(1)
    /\ hist' = [hist EXCEPT !.log = MapPut(@, "story", ActiveStory(_sessionId(reqs[1])))]
    /\ UNCHANGED << nreq, authCase >>

NextSibling == FetchSibling \/ GetGate \/ PutGate \/ BodySibling \/ ResumeOne

SpecSibling == InitTools /\ [][NextSibling]_vars

StartStory == MapGet(hist.log, "story", Undefined)

\* The entries of the batch in flight or answered last
BatchActs(names) ==
    IF reqs[1].body.kind # "batch" THEN {}
    ELSE {a \in ToolActs(names) : \E i \in 1..Len(reqs[1].acts) : reqs[1].acts[i] = a}

\* A story-scoped entry of a batch runs against the story its session had
\* when the batch started, whatever the set_story entries of the batch do:
\* with none it fails with NoActiveStory and sends nothing, with story P
\* its task is created under P; and a set_story entry whose remote calls
\* were answered with success returns a result.
SiblingsApart ==
    /\ \A a \in BatchActs(StoryScoped) :
          /\ a.storyId # Undefined => a.storyId = StartStory
          /\ (a.pc = "done" /\ ~Truthy(StartStory)) =>
                (a.resp.isError /\ a.resp.text = "NoActiveStory" /\ a.calls = 0)
          /\ (a.pc = "done" /\ ~a.resp.isError) =>
                /\ a.resp.story = StartStory
                /\ \E t \in DOMAIN tasks \ DOMAIN SomeTasks : tasks[t].parent = StartStory
    /\ \A b \in BatchActs({"set_story"}) :
          (b.pc = "done" /\ ~b.failed) =>
              (~b.resp.isError /\ b.resp.story = b.msg.args.story_id)

\* C25 as stated: in every storage tier, no story-scoped entry of a batch
\* observes a set_story entry of the same batch.
C25_NeverObserves == SiblingsApart

\* C25: on the local-memory tier, no story-scoped entry of a batch
\* observes a set_story entry of the same batch: in a session without an
\* active story task_create ends with NoActiveStory while set_story, its
\* remote calls answered with success, returns a result; in a session
\* whose story is P the task is created under P.
C25_SiblingsMemory == ~env.SESSION_KV => SiblingsApart

\* On the local-memory tier the batch [set_story(S), task_create] of a
\* session whose story was P has been answered: both entries returned a
\* result, the task was created under P, and the session's story is now S.
C25_Witness ==
    /\ ~env.SESSION_KV
    /\ reqs[1].pc = "done"
    /\ reqs[1].body = Batch(SetAndCreate)
    /\ StartStory = StoryP
    /\ ~reqs[1].acts[1].resp.isError
    /\ ~reqs[1].acts[2].resp.isError
    /\ reqs[1].acts[2].resp.story = StoryP
    /\ ActiveStory(reqs[1].sid) = StoryS

----------------------------------------------------------------------------
(* Tool calls sent without an id                                           *)

\* set_story(S) and task_create without an id, alone and next to a
\* request; set_story(P) and task_create with one; another method
\* without an id
NotifyRequests ==
    {Request("POST", "/mcp", Secret, Null, IPv4, b) :
        b \in {Single(ToolCall(undefined, "set_story", [NoArgs EXCEPT !.story_id = StoryS])),
               Single(ToolCall(undefined, "task_create", [NoArgs EXCEPT !.subject = "s"])),
               Single(Envelope("2.0", undefined, "tools/list", undefined, NoArgs)),
               Single(ToolCall("1", "set_story", [NoArgs EXCEPT !.story_id = StoryP])),
               Single(ToolCall("1", "task_create", [NoArgs EXCEPT !.subject = "s"])),
               Batch(<< ToolCall(undefined, "set_story", [NoArgs EXCEPT !.story_id = StoryS]),
                        ToolCall("2", "task_create", [NoArgs EXCEPT !.subject = "s"]) >>)}}

FetchNotify ==
    /\ \E r0 \in NotifyRequests : Fetch(1, r0)
    /\ CountedCall
    /\ UNCHANGED << hist, authCase >>

NextNotify == FetchNotify \/ GetGate \/ PutGate \/ BodyOne \/ ResumeOne

SpecNotify == InitTools /\ [][NextNotify]_vars

\* C26: an envelope without an id is dropped before dispatch: its
\* activation ends at once without a response, has invoked no handler and
\* sent nothing to the remote tracker; the step that starts a body leaves
\* the session stores and the remote tracker as they were; so a story
\* named only by a set_story without an id is never a session's active
\* story and no story-scoped call runs against it.
C26_NoIdNoEffect ==
    /\ [](/\ \A a \in Activations :
                a.msg.id = undefined =>
                    /\ a.pc = "done" /\ a.resp.kind = "null"
                    /\ a.calls = 0 /\ a.writes = 0 /\ a.sent = << >>
                    /\ a.storyId = Undefined /\ a.fetched = undefined
          /\ \A sid \in {_sessionId(reqs[p]) : p \in Slots} : ActiveStory(sid) # StoryS
          /\ \A a \in ToolActs(StoryScoped) : a.storyId # StoryS)
    /\ [][reqs[1].pc = "json" =>
             /\ memorySessions' = memorySessions
             /\ sessionKV' = sessionKV
             /\ stories' = stories
             /\ tasks' = tasks]_vars

\* A set_story for a story in state New, sent without an id, has been
\* answered 204: nothing was sent to the remote tracker, the story is
\* still New and the session has no active story.
C26_Witness ==
    /\ reqs[1].pc = "done"
    /\ reqs[1].status = 204
    /\ reqs[1].body.kind = "single"
    /\ reqs[1].acts[1].msg.name = "set_story"
    /\ reqs[1].acts[1].msg.id = undefined
    /\ reqs[1].acts[1].calls = 0
    /\ stories[StoryS] = "New"
    /\ ~Truthy(ActiveStory(reqs[1].sid))

============================================================================
